---- MODULE Spec2Model ----
(***************************************************************************)
(* Supervision of the locally run Open-WebUI server process: the           *)
(* registries of utils (serverPIDs, serverLogs), startServer,              *)
(* stopAllServers, terminateProcessTree and the handlers of main/index.ts  *)
(* that drive them.                                                        *)
(*                                                                         *)
(* JavaScript runs one callback at a time: the code between two awaits of  *)
(* real I/O or of a timer is atomic.  The variable cur names the handler   *)
(* invocation that is executing synchronous code (0: the event loop is     *)
(* idle, so a timer, a socket event, a child-process event or an IPC       *)
(* request may be dispatched).  An await of an async function that did not *)
(* itself wait for I/O resumes in the same macrotask and keeps cur.        *)
(***************************************************************************)
EXTENDS Integers, Sequences, FiniteSets, TLC

\* ------------------------------------------------------------------ bounds
\* number of child processes the operating system hands out in one run
MaxPids == 2
\* number of stdout/stderr chunks and error events of the child processes in
\* one run
MaxData == 2

\* number of lifecycle requests (start, restart, stop, reset, quit) issued in
\* one run
MaxRequests == 2
\* number of attempts of one reachability poll that fit in one run
MaxAttemptsInRun == 2
\* lifecycle requests issued in a run whose requests may overlap
MaxOverlapping == 3

\* -------------------------------------------------------- program constants
DefaultPort == 8080
PortScanRange == 100
maxRetries == 3
maxAttempts == 1800

\* the concurrent invocations of the lifecycle handlers that are modelled
Tasks == {1, 2}
Pids == 1..MaxPids
Platforms == {"posix", "win32"}
\* how a child process answers termination requests: it exits on a
\* cooperative request, it exits only on a forced one, it outlives both
\* (an uninterruptible process; a taskkill that is denied), or it exits on
\* any request but has left the process group that its identity names, so
\* that a signal to the group finds no process
Kinds == {"honors", "ignoresTerm", "survives", "ungrouped"}
\* config.json's port: 0 stands for an absent port (null)
ConfigPorts == {0, 8080}
\* the listeners other programs hold while one start scans for a port
OccupiedScenarios ==
    { {}, {8080}, {8080, 8082}, 8080..8090, 8080..8179, 8080..8180 }
Texts == {"ready"}

VARIABLES
    serverPIDs,      \* utils: const serverPIDs: Set<number>
    serverLogs,      \* utils: const serverLogs: Map<number, string[]>
    procs,           \* the operating system's view of the spawned children
    nextPid,         \* the identity the next successful spawn obtains
    SERVER_URL,      \* index.ts module state
    SERVER_STATUS,
    SERVER_REACHABLE,
    SERVER_PID,
    platform,        \* process.platform
    tasks,           \* handler invocations: position and locals
    cur,             \* the invocation executing synchronous code, or 0
    serialized,      \* callers issue one lifecycle request at a time
    chunks,          \* stdout/stderr chunks delivered so far
    requests,        \* lifecycle requests issued so far
    keyFile,         \* the content of <data>/.key, 0 when the file is absent
    keysMade,        \* the values crypto.randomBytes has handed out so far
    polls,           \* checkUrlAndOpen: the poll started for each identity
    horizon          \* the attempts of one poll that the run lasts for

vars == << serverPIDs, serverLogs, procs, nextPid, SERVER_URL, SERVER_STATUS,
           SERVER_REACHABLE, SERVER_PID, platform, tasks, cur, serialized,
           chunks, requests, keyFile, keysMade, polls, horizon >>

orchVars == << SERVER_URL, SERVER_STATUS, SERVER_REACHABLE, SERVER_PID >>
envVars == << platform, serialized, chunks, requests, horizon >>
diskVars == << keyFile, keysMade >>

\* ------------------------------------------------------------------ helpers
Min(S) == CHOOSE x \in S : \A y \in S : x <= y

RECURSIVE SetToSeq(_)
\* Array.from(set): the identities in insertion order, which is the order of
\* the identities because each spawn obtains a fresh, larger one
SetToSeq(S) == IF S = {} THEN << >>
               ELSE << Min(S) >> \o SetToSeq(S \ {Min(S)})

Range(s) == { s[k] : k \in DOMAIN s }

MapDelete(m, k) == [ q \in (DOMAIN m) \ {k} |-> m[q] ]
MapSet(m, k, v) == [ q \in (DOMAIN m) \cup {k} |-> IF q = k THEN v ELSE m[q] ]

NoProc == [ state |-> "unborn", kind |-> "honors", cause |-> "none",
            port |-> 0 ]
\* a child whose close event has been delivered: nothing of it is read again
ClosedProc == [ NoProc EXCEPT !.state = "closed" ]

\* the locals of stopAllServers and terminateProcessTree, and what one call
\* of them has done so far (warned, earlyForced, deadAtEntry, waits,
\* sigErrors)
NoStop == [ pidsToStop |-> << >>, i |-> 0, force |-> FALSE, attempt |-> 0,
            sig |-> 0, warned |-> {}, earlyForced |-> {},
            deadAtEntry |-> FALSE, waits |-> 0, sigErrors |-> FALSE,
            logged |-> << >> ]

\* the locals of startServerHandler and startServer, and what the request
\* found when it was issued (pidsAtCall, logsAtCall)
IdleTask == [ handler |-> "none", pc |-> "idle", ret |-> "none",
              stop |-> NoStop,
              installed |-> "both", expose |-> FALSE, desiredPort |-> 0,
              availablePort |-> 0, occ |-> {}, probes |-> 0, probe |-> << >>,
              pidsAtCall |-> {}, logsAtCall |-> {},
              result |-> "none", error |-> "none", url |-> "", pid |-> 0,
              argPort |-> 0, secretKey |-> 0 ]

\* ----------------------------------------------------------------- the OS
\* isProcessRunning: process.kill(pid, 0) does not throw
isProcessRunning(p) == procs[p].state = "running"

\* whether a process of this kind exits on the request
Dies(kind, request) ==
    IF request \in {"SIGKILL", "/T /F"}
    THEN kind \in {"honors", "ignoresTerm", "ungrouped"}
    ELSE kind \in {"honors", "ungrouped"}

\* the outcomes of process.kill(-pid, signal): it throws when the group has
\* no process, which is so for a process that has left it, and may be so
\* once the process has exited
GroupSignalThrows(p) ==
    IF isProcessRunning(p) THEN {procs[p].kind = "ungrouped"} ELSE BOOLEAN

\* the children after the request has been delivered to process p
Deliver(ps, p, request) ==
    IF ps[p].state = "running" /\ Dies(ps[p].kind, request)
    THEN [ ps EXCEPT ![p].state = "exited", ![p].cause = request ]
    ELSE ps

\* ------------------------------------------------------- task bookkeeping
Task(t) == tasks[t]
\* the value of cur once the application has exited
AppExited == 0 - 1
At(t, label) == tasks[t].pc = label /\ cur \in {0, t}
Resumed(t, label) == tasks[t].pc = label /\ cur = 0
Put(t, r) == tasks' = [ tasks EXCEPT ![t] = r ]
Target(r) == r.stop.pidsToStop[r.stop.i]
Forceful(request) == request \in {"SIGKILL", "/T /F"}

\* terminateUnix's signals, terminateWindows' commands
Requests(force) ==
    IF platform = "win32"
    THEN (IF force THEN << "/T /F" >> ELSE << "/T", "/T /F" >>)
    ELSE (IF force THEN << "SIGKILL" >> ELSE << "SIGTERM", "SIGKILL" >>)

Request(r) == Requests(r.stop.force)[r.stop.sig]

AttemptPc == IF platform = "win32" THEN "win_cmd" ELSE "unix_group"

\* terminateProcessTree(pidsToStop[i], force) is entered: attempt 1 begins
BeginTerminate(r, i, force) ==
    [ r EXCEPT !.pc = AttemptPc,
               !.stop = [ @ EXCEPT !.i = i, !.force = force, !.attempt = 1,
                                   !.sig = 1, !.waits = 0,
                                   !.deadAtEntry =
                                       ~isProcessRunning(r.stop.pidsToStop[i]) ] ]

\* the for loop over the signals (commands) advances; after the last one
\* terminateProcessTree verifies the termination
NextRequest(r) ==
    IF r.stop.sig < Len(Requests(r.stop.force))
    THEN [ r EXCEPT !.stop.sig = @ + 1, !.pc = AttemptPc ]
    ELSE [ r EXCEPT !.pc = "verify" ]

\* the catch of terminateUnix / terminateWindows: log and go on
OnSignalError(r) == [ NextRequest(r) EXCEPT !.stop.sigErrors = TRUE ]

\* the request is out: the task sleeps 500 ms; recorded is a process that
\* ignores cooperative requests and has been ended by a forced one sent
\* during the graceful pass
Sent(r, nextPc) ==
    LET p == Target(r)
        hit == isProcessRunning(p) /\ Dies(procs[p].kind, Request(r))
    IN [ r EXCEPT !.pc = nextPc,
                  !.stop.earlyForced =
                      IF hit /\ ~r.stop.force /\ Forceful(Request(r))
                             /\ procs[p].kind = "ignoresTerm"
                      THEN @ \cup {p} ELSE @ ]

\* stopAllServers returns to the code that awaited it
ReturnPc(r) == IF r.ret = "ss" THEN "ss_pre" ELSE "sh_after"

\* ------------------------------------------------------- stopAllServers
\* stopAllServers whose early return of lines 812-815 also drops the logs
stopAllServers_clearing(t) ==
    /\ At(t, "stopAll")
    /\ LET r == Task(t)
           snap == SetToSeq(serverPIDs)
           r1 == [ r EXCEPT !.stop = [ NoStop EXCEPT !.pidsToStop = snap ] ]
       IN IF snap = << >>
          THEN /\ Put(t, [ r1 EXCEPT !.pc = ReturnPc(r) ])
               /\ serverLogs' = [ q \in {} |-> << >> ]
          ELSE /\ Put(t, BeginTerminate(r1, 1, FALSE))
               /\ UNCHANGED serverLogs
    /\ cur' = t
    /\ UNCHANGED << serverPIDs, procs, nextPid, orchVars,
                    envVars, diskVars, polls >>

\* lines 808-820: the snapshot; nothing to stop, or the graceful pass begins
stopAllServers(t) ==
    /\ At(t, "stopAll")
    /\ LET r == Task(t)
           snap == SetToSeq(serverPIDs)
           r1 == [ r EXCEPT !.stop = [ NoStop EXCEPT !.pidsToStop = snap ] ]
       IN IF snap = << >>
          THEN Put(t, [ r1 EXCEPT !.pc = ReturnPc(r) ])
          ELSE Put(t, BeginTerminate(r1, 1, FALSE))
    /\ cur' = t
    /\ UNCHANGED << serverPIDs, serverLogs, procs, nextPid, orchVars,
                    envVars, diskVars, polls >>

\* terminateUnix: process.kill(-pid, signal), then sleep(500); the call
\* throws when no process of the group is left
terminateUnix_group(t) ==
    /\ At(t, "unix_group")
    /\ LET r == Task(t)
           p == Target(r)
       IN \E thrown \in GroupSignalThrows(p) :
            IF thrown
            THEN /\ Put(t, OnSignalError(r))
                 /\ cur' = t
                 /\ UNCHANGED procs
            ELSE /\ Put(t, Sent(r, "unix_afterGroup"))
                 /\ cur' = 0
                 /\ procs' = Deliver(procs, p, Request(r))
    /\ UNCHANGED << serverPIDs, serverLogs, nextPid, orchVars,
                    envVars, diskVars, polls >>

\* terminateUnix after the first sleep: the process itself is signalled when
\* it is still running
terminateUnix_afterGroup(t) ==
    /\ Resumed(t, "unix_afterGroup")
    /\ LET r == Task(t)
           p == Target(r)
       IN IF isProcessRunning(p)
          THEN /\ Put(t, Sent(r, "unix_afterSingle"))
               /\ cur' = 0
               /\ procs' = Deliver(procs, p, Request(r))
          ELSE /\ Put(t, NextRequest(r))
               /\ cur' = t
               /\ UNCHANGED procs
    /\ UNCHANGED << serverPIDs, serverLogs, nextPid, orchVars,
                    envVars, diskVars, polls >>

\* terminateUnix after the second sleep
terminateUnix_afterSingle(t) ==
    /\ Resumed(t, "unix_afterSingle")
    /\ Put(t, NextRequest(Task(t)))
    /\ cur' = t
    /\ UNCHANGED << serverPIDs, serverLogs, procs, nextPid, orchVars,
                    envVars, diskVars, polls >>

\* terminateWindows: execSync(taskkill) exits with an error unless the
\* process is there and is terminated by the command; then sleep(500)
terminateWindows_cmd(t) ==
    /\ At(t, "win_cmd")
    /\ LET r == Task(t)
           p == Target(r)
       IN IF isProcessRunning(p) /\ Dies(procs[p].kind, Request(r))
          THEN /\ Put(t, Sent(r, "win_afterCmd"))
               /\ cur' = 0
               /\ procs' = Deliver(procs, p, Request(r))
          ELSE /\ Put(t, OnSignalError(r))
               /\ cur' = t
               /\ UNCHANGED procs
    /\ UNCHANGED << serverPIDs, serverLogs, nextPid, orchVars,
                    envVars, diskVars, polls >>

terminateWindows_afterCmd(t) ==
    /\ Resumed(t, "win_afterCmd")
    /\ Put(t, NextRequest(Task(t)))
    /\ cur' = t
    /\ UNCHANGED << serverPIDs, serverLogs, procs, nextPid, orchVars,
                    envVars, diskVars, polls >>

\* VerifyTermination without the return at line 867
VerifyWithoutReturn(r) ==
    IF r.stop.attempt < maxRetries
    THEN [ r EXCEPT !.pc = "retry", !.stop.waits = @ + 1 ]
    ELSE [ r EXCEPT !.pc = "tpt_return" ]

\* VerifyTermination without the bound of line 876 on the attempts
VerifyAlwaysRetries(r) ==
    IF ~isProcessRunning(Target(r)) THEN [ r EXCEPT !.pc = "tpt_return" ]
    ELSE [ r EXCEPT !.pc = "retry", !.stop.waits = @ + 1 ]

\* terminateProcessTree lines 864-878 once the attempt's requests are sent
VerifyTermination(r) ==
    IF ~isProcessRunning(Target(r)) THEN [ r EXCEPT !.pc = "tpt_return" ]
    ELSE IF r.stop.attempt < maxRetries
         THEN [ r EXCEPT !.pc = "retry", !.stop.waits = @ + 1 ]
         ELSE [ r EXCEPT !.pc = "tpt_return" ]

terminateProcessTree_verify(t) ==
    /\ At(t, "verify")
    /\ LET r2 == VerifyTermination(Task(t))
       IN /\ Put(t, r2)
          /\ cur' = IF r2.pc = "retry" THEN 0 ELSE t
    /\ UNCHANGED << serverPIDs, serverLogs, procs, nextPid, orchVars,
                    envVars, diskVars, polls >>

\* sleep(1000) is over: the next attempt
terminateProcessTree_retry(t) ==
    /\ Resumed(t, "retry")
    /\ Put(t, [ Task(t) EXCEPT !.stop.attempt = @ + 1, !.stop.sig = 1,
                               !.pc = AttemptPc ])
    /\ cur' = t
    /\ UNCHANGED << serverPIDs, serverLogs, procs, nextPid, orchVars,
                    envVars, diskVars, polls >>

\* terminateProcessTree returned: the pass goes on with the next identity;
\* after the graceful pass sleep(2000); after the forceful pass the cleanup
stopAllServers_next(t) ==
    /\ At(t, "tpt_return")
    /\ LET r == Task(t)
       IN IF r.stop.i < Len(r.stop.pidsToStop)
          THEN Put(t, BeginTerminate(r, r.stop.i + 1, r.stop.force)) /\ cur' = t
          ELSE IF ~r.stop.force
               THEN Put(t, [ r EXCEPT !.pc = "afterGrace" ]) /\ cur' = 0
               ELSE Put(t, [ r EXCEPT !.pc = "final" ]) /\ cur' = t
    /\ UNCHANGED << serverPIDs, serverLogs, procs, nextPid, orchVars,
                    envVars, diskVars, polls >>

\* sleep(2000) is over: the forceful pass begins
stopAllServers_afterGrace(t) ==
    /\ Resumed(t, "afterGrace")
    /\ Put(t, BeginTerminate(Task(t), 1, TRUE))
    /\ cur' = t
    /\ UNCHANGED << serverPIDs, serverLogs, procs, nextPid, orchVars,
                    envVars, diskVars, polls >>

\* ConfirmedDead without the liveness check of line 832
ForgetEvery(snap) == Range(snap)

\* lines 830-840: the identities of the snapshot the cleanup forgets
ConfirmedDead(snap) == { p \in Range(snap) : ~isProcessRunning(p) }

\* Forget emptying the ActiveSet whatever the liveness checks found
ForgetAll(dead) ==
    << {}, [ q \in (DOMAIN serverLogs) \ dead |-> serverLogs[q] ] >>

\* lines 833-834: what the cleanup does to the registries
Forget(dead) ==
    << serverPIDs \ dead,
       [ q \in (DOMAIN serverLogs) \ dead |-> serverLogs[q] ] >>

\* the count of the closing log line (part_000 842-844)
StoppedCount(pidsToStop, active) == Len(pidsToStop) - Cardinality(active)

stopAllServers_final(t) ==
    /\ At(t, "final")
    /\ LET r == Task(t)
           dead == ConfirmedDead(r.stop.pidsToStop)
       IN /\ serverPIDs' = Forget(dead)[1]
          /\ serverLogs' = Forget(dead)[2]
          /\ Put(t, [ r EXCEPT !.stop.warned = Range(r.stop.pidsToStop) \ dead,
                               !.stop.logged =
                                   << StoppedCount(r.stop.pidsToStop,
                                                   Forget(dead)[1]) >>,
                               !.pc = ReturnPc(r) ])
    /\ cur' = t
    /\ UNCHANGED << procs, nextPid, orchVars,
                    envVars, diskVars, polls >>

\* ------------------------------------------------------------ the handlers
InFlight == { u \in Tasks : tasks[u].pc # "idle" }

\* a request is taken by the free invocation slot of lowest number; callers
\* that serialize their requests wait for the one in flight to return
CanBegin(t) ==
    /\ cur = 0
    /\ tasks[t].pc = "idle"
    /\ \A u \in Tasks : u < t => tasks[u].pc # "idle"
    /\ serialized => InFlight = {}
    /\ requests < (IF serialized THEN MaxRequests ELSE MaxOverlapping)

Begin(handler) ==
    [ IdleTask EXCEPT !.handler = handler, !.pc = "stopAll", !.ret = "sh",
                      !.pidsAtCall = serverPIDs,
                      !.logsAtCall = DOMAIN serverLogs ]

\* server:start, server:restart and the auto-start: startServerHandler,
\* which first awaits stopServerHandler (index.ts 267-268, 340-342)
IpcServerStart(t) ==
    /\ CanBegin(t)
    /\ Put(t, Begin("start"))
    /\ cur' = t
    /\ requests' = requests + 1
    /\ UNCHANGED << serverPIDs, serverLogs, procs, nextPid, orchVars, platform,
                    serialized, chunks, horizon, diskVars, polls >>

\* server:stop: stopServerHandler (index.ts 340-342)
IpcServerStop(t) ==
    /\ CanBegin(t)
    /\ Put(t, Begin("stop"))
    /\ cur' = t
    /\ requests' = requests + 1
    /\ UNCHANGED << serverPIDs, serverLogs, procs, nextPid, orchVars, platform,
                    serialized, chunks, horizon, diskVars, polls >>

\* app:reset and the tray's Reset: resetAppHandler (index.ts 364-366)
IpcAppReset(t) ==
    /\ CanBegin(t)
    /\ Put(t, Begin("reset"))
    /\ cur' = t
    /\ requests' = requests + 1
    /\ UNCHANGED << serverPIDs, serverLogs, procs, nextPid, orchVars, platform,
                    serialized, chunks, horizon, diskVars, polls >>

\* StatusAfterStop reporting stopped whatever the state was
StatusAfterStop_always(status) == "stopped"

\* index.ts 344-348
StatusAfterStop(status) == IF status # "null" THEN "stopped" ELSE status

\* stopServerHandler once stopAllServers has returned (index.ts 344-357)
stopServerHandler_after(t) ==
    /\ At(t, "sh_after")
    /\ SERVER_STATUS' = StatusAfterStop(SERVER_STATUS)
    /\ SERVER_REACHABLE' = FALSE
    /\ SERVER_URL' = "null"
    /\ LET r == [ Task(t) EXCEPT !.stop = NoStop ]
       IN IF r.handler = "start"
          THEN Put(t, [ r EXCEPT !.pc = "st_starting" ])
          ELSE IF r.handler = "reset"
               THEN Put(t, [ r EXCEPT !.pc = "rs_status" ])
               ELSE IF r.handler = "quit"
                    THEN Put(t, [ Begin("beforeQuit") EXCEPT
                                      !.pidsAtCall = r.pidsAtCall,
                                      !.logsAtCall = r.logsAtCall ])
                    ELSE IF r.handler = "beforeQuit"
                         THEN Put(t, [ r EXCEPT !.pc = "bq_done" ])
                         ELSE Put(t, [ r EXCEPT !.pc = "returning",
                                                !.result = "ok" ])
    /\ cur' = IF Task(t).handler = "beforeQuit" THEN 0 ELSE t
    /\ UNCHANGED << serverPIDs, serverLogs, procs, nextPid, SERVER_PID,
                    envVars, diskVars, polls >>

\* startServerHandler: SERVER_STATUS = "starting"; await getConfig()
startServerHandler_starting(t) ==
    /\ At(t, "st_starting")
    /\ SERVER_STATUS' = "starting"
    /\ Put(t, [ Task(t) EXCEPT !.pc = "st_config" ])
    /\ cur' = 0
    /\ UNCHANGED << serverPIDs, serverLogs, procs, nextPid, SERVER_URL,
                    SERVER_REACHABLE, SERVER_PID,
                    envVars, diskVars, polls >>

\* the catch of startServerHandler (index.ts 322-337): the error reaches the
\* caller as the handler's false and the main:log message
StartFailed(r, err) ==
    [ r EXCEPT !.pc = "returning", !.result = "failed", !.error = err,
               !.stop = NoStop ]

\* index.ts 324
FailedStatus == "failed"

\* getConfig has answered (or thrown on an unreadable config.json); then
\* startServer is called, which first awaits stopAllServers (line 716).  The
\* values read from the configuration are drawn where startServer first uses
\* them.
startServerHandler_config(t) ==
    /\ Resumed(t, "st_config")
    /\ \E readable \in BOOLEAN :
         IF readable
         THEN /\ Put(t, [ Task(t) EXCEPT !.pc = "stopAll", !.ret = "ss" ])
              /\ UNCHANGED SERVER_STATUS
         ELSE /\ Put(t, StartFailed(Task(t), "config"))
              /\ SERVER_STATUS' = FailedStatus
    /\ cur' = t
    /\ UNCHANGED << serverPIDs, serverLogs, procs, nextPid, SERVER_URL,
                    SERVER_REACHABLE, SERVER_PID,
                    envVars, diskVars, polls >>

\* ------------------------------------------------------------ startServer
Host(expose) == IF expose THEN "0.0.0.0" ELSE "127.0.0.1"

\* portInUse as the scan sees it: a listener accepts the connection
portInUse(port, occ) == port \in occ

\* the socket events that end one connection attempt of portInUse: a
\* listener accepts it, or else the timeout of 1000 ms or an error fires
SocketEvents == {"connect", "timeout", "ECONNREFUSED", "EOTHER"}

SocketEvent(port, occ) ==
    IF portInUse(port, occ) THEN {"connect"} ELSE SocketEvents \ {"connect"}

\* Resolved taking an unexpected error for a port in use
Resolved_errorInUse(event) == event \in {"connect", "EOTHER"}

\* the value that the handler of the event passes to resolve (lines 114-132)
Resolved(event) == event = "connect"

\* what is on disk when startServer looks: nothing, the runtime alone, or
\* the runtime with the open-webui package
Installations == {"none", "python", "both"}

\* lines 718-720
Precondition(installed) ==
    IF installed = "none" THEN "Python is not installed"
    ELSE IF installed = "python" THEN "open-webui package is not installed"
    ELSE "ok"

\* the scans that run into many listeners are explored for the first start,
\* and with serialized requests
ScanEnvironments ==
    IF serialized /\ nextPid = 1 THEN OccupiedScenarios ELSE { {} }

\* getSecretKey writing a new key at every access
getSecretKey_regenerating ==
    [ key |-> keysMade + 1, file |-> keysMade + 1, made |-> keysMade + 1 ]

\* lines 92-102: the key returned, the file and the values handed out
\* afterwards; crypto.randomBytes(64) yields a value never seen before
getSecretKey ==
    IF keyFile # 0
    THEN [ key |-> keyFile, file |-> keyFile, made |-> keysMade ]
    ELSE [ key |-> keysMade + 1, file |-> keysMade + 1, made |-> keysMade + 1 ]

\* lines 717-742: the preconditions, the secret key, then the first probe is
\* awaited
startServer_pre(t) ==
    /\ At(t, "ss_pre")
    /\ \E installed \in Installations :
         LET r == [ Task(t) EXCEPT !.installed = installed ]
         IN IF Precondition(installed) # "ok"
            THEN /\ Put(t, StartFailed(r, Precondition(installed)))
                 /\ SERVER_STATUS' = FailedStatus
                 /\ cur' = t
                 /\ UNCHANGED diskVars
            ELSE /\ \E expose \in BOOLEAN, port \in ConfigPorts,
                       occ \in ScanEnvironments :
                      LET desiredPort == IF port # 0 THEN port ELSE DefaultPort
                      IN Put(t, [ r EXCEPT !.expose = expose,
                                           !.desiredPort = desiredPort,
                                           !.availablePort = desiredPort,
                                           !.occ = occ,
                                           !.stop = NoStop,
                                           !.secretKey = getSecretKey.key,
                                           !.pc = "ss_probe" ])
                 /\ keyFile' = getSecretKey.file
                 /\ keysMade' = getSecretKey.made
                 /\ UNCHANGED SERVER_STATUS
                 /\ cur' = 0
    /\ UNCHANGED << serverPIDs, serverLogs, procs, nextPid, SERVER_URL,
                    SERVER_REACHABLE, SERVER_PID, envVars, polls >>

\* ScanExhausted giving up one port early
ScanExhaustedEarly(availablePort, desiredPort) ==
    availablePort >= desiredPort + PortScanRange

\* line 746: the scan gives up
ScanExhausted(availablePort, desiredPort) ==
    availablePort > desiredPort + PortScanRange

\* lines 742-749: one probe has answered
startServer_probe(t) ==
    /\ Resumed(t, "ss_probe")
    /\ \E event \in SocketEvent(Task(t).availablePort, Task(t).occ) :
       LET r == Task(t)
           counted == [ r EXCEPT !.probes = @ + 1,
                                 !.probe = << event, Resolved(event) >> ]
           stepped == [ counted EXCEPT !.availablePort = @ + 1 ]
       IN IF Resolved(event)
          THEN IF ScanExhausted(stepped.availablePort, r.desiredPort)
               THEN /\ Put(t, StartFailed(stepped, "No available ports found"))
                    /\ SERVER_STATUS' = FailedStatus
                    /\ cur' = t
               ELSE /\ Put(t, stepped)
                    /\ UNCHANGED SERVER_STATUS
                    /\ cur' = 0
          ELSE /\ Put(t, [ counted EXCEPT !.pc = "ss_spawn" ])
               /\ UNCHANGED SERVER_STATUS
               /\ cur' = t
    /\ UNCHANGED << serverPIDs, serverLogs, procs, nextPid, SERVER_URL,
                    SERVER_REACHABLE, SERVER_PID,
                    envVars, diskVars, polls >>

\* the kinds of children a spawn may yield: Windows has no process groups
\* (the child is not detached there, line 757)
SpawnKinds == IF platform = "win32" THEN Kinds \ {"ungrouped"} ELSE Kinds

\* ServerUrl built from the bind address of an exposed server
ServerUrlBindAddress(expose, port) ==
    "http://" \o Host(TRUE) \o ":" \o ToString(port)

\* lines 796-799
ServerUrl(expose, port) ==
    LET host == Host(expose)
        effectiveHost == IF ~expose /\ host = "0.0.0.0" THEN "127.0.0.1"
                         ELSE host
    IN "http://" \o effectiveHost \o ":" \o ToString(port)

\* Registered without the check of line 767
RegisteredUnchecked(pid) ==
    << serverPIDs \cup {pid}, MapSet(serverLogs, pid, << >>) >>

\* Registered adding the identity without its log
Registered_withoutLog(pid) ==
    IF pid = 0 THEN << serverPIDs, serverLogs >>
    ELSE << serverPIDs \cup {pid}, serverLogs >>

\* lines 767-773: the identities and the logs after the spawn; a spawn that
\* yields no identity registers nothing
Registered(pid) ==
    IF pid = 0 THEN << serverPIDs, serverLogs >>
    ELSE << serverPIDs \cup {pid}, MapSet(serverLogs, pid, << >>) >>

\* no poll has been started for the identity
NoPoll == [ state |-> "none", attempts |-> 0, port |-> 0, signals |-> 0 ]

\* lines 958-1011 up to the first await: attempt 1 of pollUrl has issued its
\* request to the url, of which the port tells who answers
checkUrlAndOpen(port) ==
    [ state |-> "fetching", attempts |-> 1, port |-> port, signals |-> 0 ]

\* lines 750-803 and index.ts 278-321: spawn, registration, the URL, the
\* handler's SERVER_STATUS = "started" and the poll it starts
startServer_spawn(t) ==
    /\ At(t, "ss_spawn")
    /\ LET r == Task(t)
       IN \E obtained \in BOOLEAN, kind \in SpawnKinds :
            LET pid == IF obtained /\ nextPid <= MaxPids THEN nextPid ELSE 0
            IN /\ serverPIDs' = Registered(pid)[1]
               /\ serverLogs' = Registered(pid)[2]
               /\ IF pid # 0
                  THEN /\ procs' = [ procs EXCEPT ![pid] =
                                       [ NoProc EXCEPT !.state = "running",
                                                       !.kind = kind,
                                                       !.port =
                                                           r.availablePort ] ]
                       /\ polls' = [ polls EXCEPT ![pid] =
                                       checkUrlAndOpen(r.availablePort) ]
                       /\ nextPid' = nextPid + 1
                       /\ SERVER_URL' = ServerUrl(r.expose, r.availablePort)
                       /\ SERVER_PID' = pid
                       /\ SERVER_STATUS' = "started"
                       /\ Put(t, [ r EXCEPT !.pc = "returning",
                                            !.result = "ok",
                                            !.url = ServerUrl(r.expose,
                                                              r.availablePort),
                                            !.argPort = r.availablePort,
                                            !.pid = pid ])
                  ELSE /\ Put(t, StartFailed(r,
                                 "Failed to start server: No PID available"))
                       /\ SERVER_STATUS' = FailedStatus
                       /\ UNCHANGED << procs, nextPid, SERVER_URL, SERVER_PID,
                                       polls >>
    /\ cur' = t
    /\ UNCHANGED << SERVER_REACHABLE, envVars, diskVars >>

\* the handler's promise settles: its caller sees the result
HandlerReturns(t) ==
    /\ At(t, "returning")
    /\ Put(t, IdleTask)
    /\ cur' = 0
    /\ UNCHANGED << serverPIDs, serverLogs, procs, nextPid, orchVars,
                    envVars, diskVars, polls >>

\* ------------------------------------------------------ resetAppHandler
\* index.ts 367-370: SERVER_STATUS = null, then a second is waited for
resetAppHandler_status(t) ==
    /\ At(t, "rs_status")
    /\ SERVER_STATUS' = "null"
    /\ Put(t, [ Task(t) EXCEPT !.pc = "rs_wait" ])
    /\ cur' = 0
    /\ UNCHANGED << serverPIDs, serverLogs, procs, nextPid, SERVER_URL,
                    SERVER_REACHABLE, SERVER_PID, envVars, diskVars, polls >>

\* lines 537-557: the key file is gone when unlinkSync or the rmSync of the
\* data directory that holds it succeeds; their errors are logged
KeyAfterReset(unlinked, dirRemoved) ==
    IF unlinked \/ dirRemoved THEN 0 ELSE keyFile

\* resetApp (lines 522-558) once the second is over, and the handler's return
resetApp(t) ==
    /\ Resumed(t, "rs_wait")
    /\ \E unlinked \in BOOLEAN, dirRemoved \in BOOLEAN :
         keyFile' = KeyAfterReset(unlinked, dirRemoved)
    /\ Put(t, [ Task(t) EXCEPT !.pc = "returning", !.result = "ok" ])
    /\ cur' = t
    /\ UNCHANGED << serverPIDs, serverLogs, procs, nextPid, orchVars, envVars,
                    keysMade, polls >>

\* ------------------------------------------------------------------ quit
\* index.ts 48, 611: set when the listener of before-quit begins
isQuiting == \E t \in Tasks : tasks[t].handler = "beforeQuit"

\* a quit is asked for once, whatever is in flight
CanQuit(t) ==
    /\ cur = 0
    /\ requests < MaxRequests
    /\ tasks[t].pc = "idle"
    /\ \A u \in Tasks : u < t => tasks[u].pc # "idle"
    /\ \A u \in Tasks : tasks[u].handler \notin {"quit", "beforeQuit"}

\* Quit of the first tray menu (index.ts 157-165): stopServerHandler is
\* awaited, then app.quit() emits before-quit (stopServerHandler_after)
TrayQuit(t) ==
    /\ CanQuit(t)
    /\ Put(t, Begin("quit"))
    /\ cur' = t
    /\ requests' = requests + 1
    /\ UNCHANGED << serverPIDs, serverLogs, procs, nextPid, orchVars, platform,
                    serialized, chunks, horizon, diskVars, polls >>

\* app.quit() of the rebuilt tray menu (index.ts 226-233) and of
\* window-all-closed (603-608): the listener of before-quit (610-617) calls
\* stopServerHandler
BeforeQuit(t) ==
    /\ CanQuit(t)
    /\ Put(t, Begin("beforeQuit"))
    /\ cur' = t
    /\ requests' = requests + 1
    /\ UNCHANGED << serverPIDs, serverLogs, procs, nextPid, orchVars, platform,
                    serialized, chunks, horizon, diskVars, polls >>

\* the application exits: the listener of before-quit has returned its
\* promise, which nothing awaits; no callback runs any more
AppExits ==
    /\ cur = 0
    /\ isQuiting
    /\ cur' = AppExited
    /\ UNCHANGED << serverPIDs, serverLogs, procs, nextPid, orchVars, envVars,
                    diskVars, polls, tasks >>

\* ------------------------------------------------------ checkUrlAndOpen
\* checkUrl: a HEAD request to the url is answered with an ok response only
\* by a running server that was given the port of the url
Listening(port) ==
    \E q \in Pids : procs[q].state = "running" /\ procs[q].port = port

\* PollAfterSuccess without the return of line 991
PollAfterSuccess_goesOn(poll) ==
    [ poll EXCEPT !.state = "waiting", !.signals = @ + 1 ]

\* lines 987-992: the callback has been called, pollUrl returns
PollAfterSuccess(poll) ==
    [ poll EXCEPT !.state = "done", !.signals = @ + 1 ]

\* line 979
PollGoesOn(attempts) == attempts < maxAttempts

\* lines 986-998: the request of the attempt is answered; on an ok response
\* the browser is opened and the callback of index.ts 305-319 sets
\* SERVER_REACHABLE, otherwise 2000 ms are waited for
pollUrl_response(p) ==
    /\ cur = 0
    /\ polls[p].state = "fetching"
    /\ \E isAvailable \in (IF Listening(polls[p].port) THEN BOOLEAN
                            ELSE {FALSE}) :
         IF isAvailable
         THEN /\ polls' = [ polls EXCEPT ![p] = PollAfterSuccess(@) ]
              /\ SERVER_REACHABLE' = TRUE
         ELSE /\ polls' = [ polls EXCEPT ![p].state = "waiting" ]
              /\ UNCHANGED SERVER_REACHABLE
    /\ UNCHANGED << serverPIDs, serverLogs, procs, nextPid, SERVER_URL,
                    SERVER_STATUS, SERVER_PID, envVars, diskVars, tasks, cur >>

\* lines 979-983 and 1001-1004: the 2000 ms are over; the next attempt
\* issues its request, or the attempts are used up and pollUrl returns
pollUrl_timer(p) ==
    /\ cur = 0
    /\ polls[p].state = "waiting"
    /\ IF PollGoesOn(polls[p].attempts)
       THEN /\ polls[p].attempts < horizon
            /\ polls' = [ polls EXCEPT ![p].state = "fetching",
                                        ![p].attempts = @ + 1 ]
       ELSE polls' = [ polls EXCEPT ![p].state = "timedout" ]
    /\ UNCHANGED << serverPIDs, serverLogs, procs, nextPid, orchVars, envVars,
                    diskVars, tasks, cur >>

\* ------------------------------------------------- events of the children
ExitLine(p) ==
    LET c == procs[p].cause
        code == IF c \in {"SIGTERM", "SIGKILL"} THEN "null" ELSE "1"
        signal == IF c \in {"SIGTERM", "SIGKILL"} THEN c ELSE "null"
    IN "[process][PID:" \o ToString(p) \o "] Exited with code " \o code
       \o " signal " \o signal

LogLine(source, p, text) ==
    "[" \o source \o "][PID:" \o ToString(p) \o "]: " \o text

\* Push putting the line in front of the earlier ones
PushFront(p, line) ==
    IF p \in DOMAIN serverLogs
    THEN [ serverLogs EXCEPT ![p] = << line >> \o @ ]
    ELSE serverLogs

\* logLines.push(line): the array stays readable while serverLogs holds it
Push(p, line) ==
    IF p \in DOMAIN serverLogs
    THEN [ serverLogs EXCEPT ![p] = Append(@, line) ]
    ELSE serverLogs

\* the child ends on its own account (a crash, the port taken at bind time)
ProcessExits(p) ==
    /\ cur = 0
    /\ procs[p].state = "running"
    /\ procs' = [ procs EXCEPT ![p].state = "exited", ![p].cause = "self" ]
    /\ UNCHANGED << serverPIDs, serverLogs, nextPid, orchVars, envVars, diskVars,
                    polls, tasks, cur >>

\* a close callback that also reports the server as stopped
CloseEvent_reporting(p) ==
    /\ cur = 0
    /\ procs[p].state = "exited"
    /\ procs' = [ procs EXCEPT ![p] = ClosedProc ]
    /\ serverLogs' = Push(p, ExitLine(p))
    /\ serverPIDs' = serverPIDs \ {p}
    /\ SERVER_STATUS' = "stopped"
    /\ UNCHANGED << nextPid, SERVER_URL, SERVER_REACHABLE, SERVER_PID, envVars,
                    diskVars, polls, tasks, cur >>

\* childProcess.on("close") (lines 783-789)
CloseEvent(p) ==
    /\ cur = 0
    /\ procs[p].state = "exited"
    /\ procs' = [ procs EXCEPT ![p] = ClosedProc ]
    /\ serverLogs' = Push(p, ExitLine(p))
    /\ serverPIDs' = serverPIDs \ {p}
    /\ UNCHANGED << nextPid, orchVars, envVars, diskVars,
                    polls, tasks, cur >>

\* stdout/stderr "data" (lines 775-782); text is the chunk after trim()
DataEvent(p) ==
    /\ cur = 0
    /\ procs[p].state \in {"running", "exited"}
    /\ chunks < MaxData
    /\ \E source \in {"stdout", "stderr"}, text \in Texts :
         serverLogs' = Push(p, LogLine(source, p, text))
    /\ chunks' = chunks + 1
    /\ UNCHANGED << serverPIDs, procs, nextPid, orchVars, platform, serialized,
                    requests, horizon, diskVars, polls, tasks, cur >>

ErrorMessages == {"EPIPE"}

ErrorLine(p, message) ==
    "[process][PID:" \o ToString(p) \o "] Error: " \o message

\* an error callback that also drops the identity, as the close callback does
ErrorEvent_untracking(p) ==
    /\ cur = 0
    /\ procs[p].state \in {"running", "exited"}
    /\ chunks < MaxData
    /\ \E message \in ErrorMessages :
         serverLogs' = Push(p, ErrorLine(p, message))
    /\ serverPIDs' = serverPIDs \ {p}
    /\ chunks' = chunks + 1
    /\ UNCHANGED << procs, nextPid, orchVars, platform, serialized,
                    requests, horizon, diskVars, polls, tasks, cur >>

\* childProcess.on("error") (lines 790-794)
ErrorEvent(p) ==
    /\ cur = 0
    /\ procs[p].state \in {"running", "exited"}
    /\ chunks < MaxData
    /\ \E message \in ErrorMessages :
         serverLogs' = Push(p, ErrorLine(p, message))
    /\ chunks' = chunks + 1
    /\ UNCHANGED << serverPIDs, procs, nextPid, orchVars, platform, serialized,
                    requests, horizon, diskVars, polls, tasks, cur >>

\* ------------------------------------------------------- specifications
InitCommon ==
    /\ serverPIDs = {}
    /\ serverLogs = [ q \in {} |-> << >> ]
    /\ procs = [ p \in Pids |-> NoProc ]
    /\ nextPid = 1
    /\ SERVER_URL = "null"
    /\ SERVER_STATUS = "null"
    /\ SERVER_REACHABLE = FALSE
    /\ SERVER_PID = 0
    /\ platform \in Platforms
    /\ tasks = [ t \in Tasks |-> IdleTask ]
    /\ cur = 0
    /\ chunks = 0
    /\ requests = 0
    /\ keyFile = 0
    /\ keysMade = keyFile
    /\ polls = [ p \in Pids |-> NoPoll ]
    /\ horizon = MaxAttemptsInRun

Init == InitCommon /\ serialized = TRUE
InitConcurrent == InitCommon /\ serialized = FALSE

\* the first start has just returned and its poll is under way; the run
\* lasts for all the attempts of the poll and no further request is issued
InitPoll ==
    /\ serverPIDs = {1}
    /\ serverLogs = [ q \in {1} |-> << >> ]
    /\ \E kind \in Kinds :
         procs = [ p \in Pids |->
                     IF p = 1 THEN [ NoProc EXCEPT !.state = "running",
                                                   !.kind = kind,
                                                   !.port = DefaultPort ]
                     ELSE NoProc ]
    /\ nextPid = 2
    /\ \E expose \in BOOLEAN : SERVER_URL = ServerUrl(expose, DefaultPort)
    /\ SERVER_STATUS = "started"
    /\ SERVER_REACHABLE = FALSE
    /\ SERVER_PID = 1
    /\ platform \in Platforms
    /\ tasks = [ t \in Tasks |-> IdleTask ]
    /\ cur = 0
    /\ chunks = 0
    /\ requests = 1
    /\ serialized = TRUE
    /\ keyFile = 1
    /\ keysMade = 1
    /\ polls = [ p \in Pids |->
                   IF p = 1 THEN checkUrlAndOpen(DefaultPort) ELSE NoPoll ]
    /\ horizon = maxAttempts + 1

\* one step of a handler invocation
Handler(t) ==
    \/ IpcServerStart(t)
    \/ IpcServerStop(t)
    \/ IpcAppReset(t)
    \/ resetAppHandler_status(t)
    \/ resetApp(t)
    \/ stopAllServers(t)
    \/ terminateUnix_group(t)
    \/ terminateUnix_afterGroup(t)
    \/ terminateUnix_afterSingle(t)
    \/ terminateWindows_cmd(t)
    \/ terminateWindows_afterCmd(t)
    \/ terminateProcessTree_verify(t)
    \/ terminateProcessTree_retry(t)
    \/ stopAllServers_next(t)
    \/ stopAllServers_afterGrace(t)
    \/ stopAllServers_final(t)
    \/ stopServerHandler_after(t)
    \/ startServerHandler_starting(t)
    \/ startServerHandler_config(t)
    \/ startServer_pre(t)
    \/ startServer_probe(t)
    \/ startServer_spawn(t)
    \/ HandlerReturns(t)

Next ==
    \/ \E t \in Tasks : Handler(t)
    \/ \E p \in Pids : ProcessExits(p)
    \/ \E p \in Pids : CloseEvent(p)

\* requests are issued one at a time; the children may end on their own
\* account; their output and the answers to the polls are yet to come
Spec == Init /\ [][Next]_vars

\* requests are issued one at a time while the children write to stdout
\* and stderr
NextLogs ==
    \/ \E t \in Tasks : Handler(t)
    \/ \E p \in Pids : CloseEvent(p)
    \/ \E p \in Pids : DataEvent(p)

SpecLogs == Init /\ [][NextLogs]_vars

\* requests are issued one at a time while the children report errors
NextErrors ==
    \/ \E t \in Tasks : Handler(t)
    \/ \E p \in Pids : CloseEvent(p)
    \/ \E p \in Pids : ErrorEvent(p)

SpecErrors == Init /\ [][NextErrors]_vars

\* requests are issued one at a time until the user quits the application
NextQuit ==
    \/ \E t \in Tasks : Handler(t)
    \/ \E p \in Pids : CloseEvent(p)
    \/ \E t \in Tasks : TrayQuit(t)
    \/ \E t \in Tasks : BeforeQuit(t)
    \/ AppExits

SpecQuit == Init /\ [][NextQuit]_vars

\* requests arrive while earlier ones are in flight; the children end when
\* they are told to
NextConcurrent ==
    \/ \E t \in Tasks : Handler(t)
    \/ \E p \in Pids : CloseEvent(p)

SpecConcurrent == InitConcurrent /\ [][NextConcurrent]_vars

\* requests are issued one at a time while the polls of the earlier starts
\* go on
NextPolling ==
    \/ \E t \in Tasks : Handler(t)
    \/ \E p \in Pids : CloseEvent(p)
    \/ \E p \in Pids : pollUrl_response(p)
    \/ \E p \in Pids : pollUrl_timer(p)

SpecPolling == Init /\ [][NextPolling]_vars

\* one poll from its first attempt to its end
NextPoll ==
    \/ \E p \in Pids : pollUrl_response(p)
    \/ \E p \in Pids : pollUrl_timer(p)
    \/ \E p \in Pids : ProcessExits(p)
    \/ \E p \in Pids : CloseEvent(p)

SpecPoll == InitPoll /\ [][NextPoll]_vars

\* ------------------------------------------------------------------ claims
\* the handler invocation t is at its return
Returning(t, handler) ==
    /\ tasks[t].pc = "returning" /\ tasks[t].handler = handler
StartReturned(t) == Returning(t, "start") /\ tasks[t].result = "ok"
StartFailedAt(t) == Returning(t, "start") /\ tasks[t].result = "failed"
\* stopAllServers of invocation t has just returned to its caller
StopReturned(t) == tasks[t].pc \in {"sh_after", "ss_pre"}
Snapshot(t) == Range(tasks[t].stop.pidsToStop)
PreconditionErrors ==
    {"Python is not installed", "open-webui package is not installed"}
ScanRange(r) == r.desiredPort .. (r.desiredPort + PortScanRange)

\* C1: a start that returns after an earlier start has returned (its identity
\* is not the first one handed out) leaves exactly one identity in the
\* ActiveSet, whatever the earlier process does with termination requests.
C1_OneIdentityAfterSecondStart ==
    \A t \in Tasks :
        (StartReturned(t) /\ tasks[t].pid > 1) => Cardinality(serverPIDs) = 1

\* C2: lifecycle operations exclude one another, so that two start
\* sequences never both pass their initial stop and spawn: the ActiveSet
\* never holds two identities of running server processes.
C2_NoTwoRunningServers ==
    Cardinality({ p \in serverPIDs : isProcessRunning(p) }) <= 1

\* C3: the log of every identity that was ever launched stays readable
\* through getServerLog (the code has no clear operation): no stop removes it.
C3_LogsSurviveStop ==
    \A p \in Pids : procs[p].state # "unborn" => p \in DOMAIN serverLogs

\* C4: a process that ignores graceful termination and honors forceful
\* termination is reached by no forceful request during the graceful pass
\* (it is alive when the grace period ends), and is gone from the ActiveSet
\* when stopAll returns.
C4_ForcefulOnlyAfterGrace ==
    \A t \in Tasks :
        /\ tasks[t].stop.earlyForced = {}
        /\ StopReturned(t) =>
             \A p \in Snapshot(t) :
                 procs[p].kind = "ignoresTerm" => p \notin serverPIDs

\* C5: stopAllServers returns to its caller whatever the termination
\* requests did; an identity alive at the verification is still in the
\* ActiveSet and has been warned about; no call makes more than maxRetries
\* attempts; the stop handler returns true.
C5_StopNeverAborts ==
    \A t \in Tasks :
        /\ tasks[t].stop.attempt <= maxRetries
        /\ StopReturned(t) =>
             \A p \in Snapshot(t) :
                 isProcessRunning(p) =>
                     p \in serverPIDs /\ p \in tasks[t].stop.warned
        /\ Returning(t, "stop") => tasks[t].result = "ok"

C5_Witness ==
    \E t \in Tasks :
        /\ StopReturned(t)
        /\ tasks[t].stop.sigErrors
        /\ \E p \in tasks[t].stop.warned : isProcessRunning(p)

\* C6: the scan fails with the port-exhausted error only when every port of
\* [d, d+100] is occupied, and then nothing is spawned; a scan that ends
\* otherwise ends on the lowest free port of [d, d+100].
C6_PortAllocation ==
    \A t \in Tasks :
        LET r == tasks[t]
        IN /\ r.error = "No available ports found" =>
                /\ \A q \in ScanRange(r) : portInUse(q, r.occ)
                /\ r.pid = 0
                /\ serverPIDs \subseteq r.pidsAtCall
           /\ (r.pc = "ss_spawn" \/ StartReturned(t)) =>
                /\ r.availablePort \in ScanRange(r)
                /\ ~portInUse(r.availablePort, r.occ)
                /\ \A q \in r.desiredPort .. (r.availablePort - 1) :
                       portInUse(q, r.occ)

C6_Witness ==
    \E t \in Tasks :
        /\ StartReturned(t)
        /\ tasks[t].availablePort = tasks[t].desiredPort + PortScanRange

\* C7: a start with expose = false from an empty ActiveSet returns
\* http://127.0.0.1:<q>, q the lowest free port from the desired one on
\* (8080 when it is free, 8091 when 8080..8090 are occupied) and the port
\* given to the subprocess, and the ActiveSet is exactly the returned identity.
C7_StartResult ==
    \A t \in Tasks :
        LET r == tasks[t]
            q == Min({ x \in ScanRange(r) : x \notin r.occ })
        IN (StartReturned(t) /\ ~r.expose /\ r.pidsAtCall = {}) =>
              /\ r.url = "http://127.0.0.1:" \o ToString(q)
              /\ r.argPort = q
              /\ SERVER_URL = r.url
              /\ serverPIDs = {r.pid}
              /\ (r.desiredPort = 8080 /\ r.occ = {}) =>
                     r.url = "http://127.0.0.1:8080"
              /\ (r.desiredPort = 8080 /\ r.occ = 8080..8090) =>
                     r.url = "http://127.0.0.1:8091"

C7_Witness ==
    \E t \in Tasks :
        /\ StartReturned(t) /\ ~tasks[t].expose /\ tasks[t].pidsAtCall = {}
        /\ tasks[t].occ = 8080..8090
        /\ tasks[t].url = "http://127.0.0.1:8091"

\* C8: a start that fails on a precondition has probed no port and spawned
\* nothing; afterwards the ActiveSet is empty and the state is failed.
C8_PreconditionFailure ==
    \A t \in Tasks :
        (StartFailedAt(t) /\ tasks[t].error \in PreconditionErrors) =>
            /\ tasks[t].probes = 0
            /\ tasks[t].pid = 0
            /\ serverPIDs = {}
            /\ SERVER_STATUS = "failed"

\* C9: a start that fails leaves the state failed, hands the error to its
\* caller, and has registered no identity and created no log.
C9_FailedStartRegistersNothing ==
    \A t \in Tasks :
        StartFailedAt(t) =>
            /\ SERVER_STATUS = "failed"
            /\ tasks[t].error # "none"
            /\ tasks[t].pid = 0
            /\ serverPIDs \subseteq tasks[t].pidsAtCall
            /\ DOMAIN serverLogs \subseteq tasks[t].logsAtCall

C9_Witness ==
    \E t \in Tasks :
        /\ StartFailedAt(t)
        /\ tasks[t].error = "Failed to start server: No PID available"
        /\ tasks[t].probes > 0

\* C10: terminateProcessTree entered for a process that is already dead
\* returns after its first attempt, with no wait, in both modes.
C10_DeadProcessOneAttempt ==
    \A t \in Tasks :
        (tasks[t].pc = "tpt_return" /\ tasks[t].stop.deadAtEntry) =>
            /\ tasks[t].stop.attempt = 1
            /\ tasks[t].stop.waits = 0

C10_Witness ==
    \E t \in Tasks :
        /\ tasks[t].pc = "tpt_return"
        /\ tasks[t].stop.deadAtEntry
        /\ ~tasks[t].stop.force
        /\ tasks[t].stop.sigErrors

\* C11: stopAllServers entered with an empty ActiveSet returns in the same
\* turn of the event loop, having sent no request, waited for nothing and
\* warned about nothing, and leaves the ActiveSet, the logs and the
\* processes as they were.
C11_EmptyStopIsNoOp ==
    [][ \A t \in Tasks :
          (tasks[t].pc = "stopAll" /\ serverPIDs = {} /\ tasks'[t] # tasks[t])
          => /\ tasks'[t].pc = ReturnPc(tasks[t])
             /\ tasks'[t].stop = NoStop
             /\ cur' = t
             /\ UNCHANGED << serverPIDs, serverLogs, procs >> ]_vars

\* the stop that startServer performs right after the handler's stop has
\* drained the set
C11_Witness ==
    \E t \in Tasks :
        /\ tasks[t].pc = "ss_pre"
        /\ tasks[t].pidsAtCall # {}
        /\ tasks[t].stop = NoStop
        /\ serverPIDs = {}

\* C12: right after the close event of a launched process, however it came
\* to exit, the log readable for its identity ends with its exit line and
\* the identity is out of the ActiveSet; nothing is appended to the log of a
\* closed process.
C12_ExitLineAfterClose ==
    [][ \A p \in Pids :
          /\ (procs[p].state = "exited" /\ procs'[p].state = "closed")
             => /\ p \in DOMAIN serverLogs'
                /\ Len(serverLogs'[p]) > 0
                /\ serverLogs'[p][Len(serverLogs'[p])] = ExitLine(p)
                /\ p \notin serverPIDs'
          /\ (procs[p].state = "closed" /\ p \in DOMAIN serverLogs
                 /\ p \in DOMAIN serverLogs')
             => serverLogs'[p] = serverLogs[p] ]_vars

\* C13: while a process runs its log is there and only grows at the end: a
\* step changes it only by appending the one line of one stdout or stderr
\* callback, tagged with the source and the identity, and one callback
\* changes one log.
C13_AppendOnly ==
    [][ /\ \A p \in Pids :
             isProcessRunning(p)
             => /\ p \in DOMAIN serverLogs /\ p \in DOMAIN serverLogs'
                /\ serverLogs'[p] # serverLogs[p]
                   => /\ chunks' = chunks + 1
                      /\ \E source \in {"stdout", "stderr"}, text \in Texts :
                           serverLogs'[p] =
                               Append(serverLogs[p], LogLine(source, p, text))
        /\ chunks' # chunks
           => Cardinality({ p \in DOMAIN serverLogs \cap DOMAIN serverLogs' :
                              serverLogs'[p] # serverLogs[p] }) <= 1 ]_vars

\* the two streams of one running process have each delivered a chunk
C13_Witness ==
    \E p \in Pids :
        /\ isProcessRunning(p)
        /\ p \in DOMAIN serverLogs
        /\ serverLogs[p] = << LogLine("stderr", p, "ready"),
                              LogLine("stdout", p, "ready") >>

\* the edges of the state machine; idle is the null of index.ts 52
StateEdges ==
    { << "null", "starting" >>, << "starting", "started" >>,
      << "starting", "failed" >>, << "started", "stopping" >>,
      << "stopping", "stopped" >>, << "stopped", "starting" >>,
      << "failed", "starting" >> }

\* C14: every change of the server state follows an edge of the state
\* machine; a stop issued while started passes through stopping, and stopped
\* is entered from stopping alone.
C14_StateMachine ==
    [][ SERVER_STATUS' # SERVER_STATUS
        => << SERVER_STATUS, SERVER_STATUS' >> \in StateEdges ]_vars

\* C16: an identity leaves the ActiveSet only in the step of its close
\* event or in the verification of a stopAllServers that has it in its
\* snapshot and finds it dead; the steps that send termination requests
\* leave the ActiveSet as it is.
C16_RemovalOnlyWhenDead ==
    [][ /\ \A p \in serverPIDs :
             p \notin serverPIDs'
             => \/ procs[p].state = "exited" /\ procs'[p].state = "closed"
                \/ \E t \in Tasks :
                      /\ tasks[t].pc = "final" /\ tasks'[t].pc # "final"
                      /\ p \in Snapshot(t)
                      /\ ~isProcessRunning(p)
        /\ procs' # procs /\ (\E p \in Pids : procs'[p].cause
                                  \in {"SIGTERM", "SIGKILL", "/T", "/T /F"}
                               /\ procs[p].state = "running"
                               /\ procs'[p].state = "exited")
           => UNCHANGED serverPIDs ]_vars

\* a forced request has ended the process and its identity is still
\* registered
C16_Witness ==
    \E t \in Tasks :
        /\ tasks[t].pc \in {"unix_afterGroup", "win_afterCmd"}
        /\ procs[Target(tasks[t])].state = "exited"
        /\ procs[Target(tasks[t])].cause \in {"SIGKILL", "/T /F"}
        /\ Target(tasks[t]) \in serverPIDs

\* the addresses that carry the all-interfaces host
AllInterfacesUrls ==
    { "http://0.0.0.0:" \o ToString(q) :
        q \in DefaultPort .. (DefaultPort + PortScanRange) }

\* C18: neither the URL a start returns nor the one the orchestrator
\* records carries the host 0.0.0.0, for expose = true as for expose = false.
C18_NoAllInterfacesUrl ==
    /\ SERVER_URL \notin AllInterfacesUrls
    /\ \A t \in Tasks : tasks[t].url \notin AllInterfacesUrls

\* C20: one call of terminateProcessTree makes at most 3 attempts; it waits
\* after attempts 1 and 2 only; it returns before the third attempt only
\* when the process is dead, and returns after the third whatever it found.
C20_AtMostThreeAttempts ==
    \A t \in Tasks :
        LET r == tasks[t]
        IN /\ r.stop.attempt <= 3
           /\ r.pc = "retry"
              => r.stop.attempt < 3 /\ r.stop.waits = r.stop.attempt
           /\ r.pc = "tpt_return"
              => /\ r.stop.waits = r.stop.attempt - 1
                 /\ isProcessRunning(Target(r)) => r.stop.attempt = 3

C20_Witness ==
    \E t \in Tasks :
        /\ tasks[t].pc = "tpt_return"
        /\ isProcessRunning(Target(tasks[t]))
        /\ tasks[t].stop.attempt = 3
        /\ tasks[t].stop.waits = 2

\* the poll started for identity p is the poll of the current server
CurrentPoll(p) == p = SERVER_PID /\ SERVER_STATUS = "started"

\* C15: the answer to a poll whose identity is no longer current changes
\* nothing, and the reachable flag is never true while the state is stopped
\* or failed.
C15_StalePollDiscarded ==
    [][ /\ \A p \in Pids :
             ( /\ polls[p].state = "fetching"
               /\ polls'[p].state # "fetching"
               /\ ~CurrentPoll(p) )
             => SERVER_REACHABLE' = SERVER_REACHABLE
        /\ SERVER_REACHABLE' => SERVER_STATUS' \notin {"stopped", "failed"}
      ]_vars

C19_PollBounded ==
    [][ \A p \in Pids :
          /\ polls'[p].attempts <= maxAttempts
          /\ polls'[p].signals <= 1
          /\ polls'[p].signals # polls[p].signals
             => /\ polls[p].state = "fetching" /\ polls'[p].state = "done"
                /\ SERVER_REACHABLE'
          /\ polls[p].state \in {"done", "timedout"} => polls'[p] = polls[p]
          /\ (polls[p].state # "timedout" /\ polls'[p].state = "timedout")
             => /\ polls[p].signals = 0
                /\ polls[p].attempts = maxAttempts
                /\ UNCHANGED << orchVars, tasks >> ]_vars

C19_Witness ==
    \E p \in Pids :
        /\ polls[p].state = "timedout"
        /\ polls[p].attempts = maxAttempts
        /\ ~SERVER_REACHABLE

\* C21: on POSIX the signals of one attempt are SIGTERM then SIGKILL, or
\* SIGKILL alone when forceful; whenever the process runs after the step
\* that signals its group, the failure of that step included, the process
\* itself is signalled next with the same signal.
C21_GroupThenProcess ==
    [][ \A t \in Tasks :
          LET r == tasks[t]
          IN /\ (r.pc = "unix_group" /\ tasks'[t] # r)
                => /\ Request(r) = (IF r.stop.force THEN "SIGKILL"
                                    ELSE << "SIGTERM", "SIGKILL" >>[r.stop.sig])
                   /\ procs'[Target(r)].state = "running"
                      => tasks'[t].pc = "unix_afterGroup"
             /\ (r.pc = "unix_afterGroup" /\ tasks'[t] # r
                   /\ isProcessRunning(Target(r)))
                => /\ tasks'[t].pc = "unix_afterSingle"
                   /\ procs' = Deliver(procs, Target(r), Request(r)) ]_vars

\* C22: a request of the forceful pass goes to an identity that is still in
\* the ActiveSet: none is sent for an identity whose close event has fired.
C22_ForcefulOnlyToPresent ==
    [][ \A t \in Tasks :
          ( /\ tasks[t].pc \in {"unix_group", "win_cmd"}
            /\ tasks[t].stop.force
            /\ tasks'[t] # tasks[t] )
          => Target(tasks[t]) \in serverPIDs ]_vars

\* C23: the count that a stop logs is the number of identities of its
\* snapshot that it confirmed dead, between 0 and the size of the snapshot,
\* also when another identity is registered while the stop runs.
C23_CountIsConfirmedDead ==
    \A t \in Tasks :
        LET st == tasks[t].stop
        IN st.logged # << >>
           => /\ st.logged[1] = Len(st.pidsToStop) - Cardinality(st.warned)
              /\ st.logged[1] \in 0 .. Len(st.pidsToStop)

\* C24: an error event of a child appends one error line to the log of its
\* identity and changes nothing else: the identity stays in the ActiveSet.
C24_ErrorKeepsIdentity ==
    [][ \A p \in DOMAIN serverLogs \cap DOMAIN serverLogs' :
          (\E message \in ErrorMessages :
              serverLogs'[p] = Append(serverLogs[p], ErrorLine(p, message)))
          => /\ serverPIDs' = serverPIDs
             /\ DOMAIN serverLogs' = DOMAIN serverLogs
             /\ \A q \in DOMAIN serverLogs \ {p} :
                    serverLogs'[q] = serverLogs[q]
             /\ UNCHANGED << procs, orchVars, tasks >> ]_vars

\* the last line of the log of a tracked, running process is an error line
C24_Witness ==
    \E p \in serverPIDs :
        /\ isProcessRunning(p)
        /\ serverLogs[p] # << >>
        /\ serverLogs[p][Len(serverLogs[p])] = ErrorLine(p, "EPIPE")

\* C25: a port probe gives one result for the one socket event that ends
\* it: true when the connection succeeded, false on the timeout, on a
\* refused connection and on any other error; a probe that is awaited can
\* always be answered.
C25_ProbeResolves ==
    \A t \in Tasks :
        LET r == tasks[t]
        IN /\ r.probe # << >>
              => /\ r.probe[1] \in SocketEvents
                 /\ r.probe[2] = (r.probe[1] = "connect")
                 /\ r.probes >= 1
           /\ (r.pc = "ss_probe" /\ cur = 0) => ENABLED startServer_probe(t)

\* a probe ended by an unexpected error has answered false and the scan has
\* taken the port
C25_Witness ==
    \E t \in Tasks :
        /\ tasks[t].probe = << "EOTHER", FALSE >>
        /\ tasks[t].pc = "ss_spawn"

\* C26: when a stop request returns with the state stopped, having found no
\* identity of its snapshot alive, the ActiveSet is empty and no tracked
\* server process runs, also when a start was in flight during the stop.
C26_StoppedMeansNoneRunning ==
    [][ \A t \in Tasks :
          ( /\ tasks[t].pc = "sh_after" /\ tasks[t].handler = "stop"
            /\ tasks[t].stop.warned = {}
            /\ Returning(t, "stop")'
            /\ SERVER_STATUS' = "stopped" )
          => /\ serverPIDs' = {}
             /\ \A p \in DOMAIN serverLogs' : procs'[p].state # "running"
      ]_vars

\* C27: when the application has exited, the stop that its quit started has
\* completed and no tracked server process runs, also when a start was in
\* flight at the quit.
C27_StoppedBeforeExit ==
    cur = AppExited
    => /\ \A t \in Tasks :
             tasks[t].handler = "beforeQuit" => tasks[t].pc = "bq_done"
       /\ \A p \in serverPIDs : ~isProcessRunning(p)

\* C28: every identity of the ActiveSet has a log.  A start adds the
\* identity and its empty log together; a log is removed only by stopAll, for
\* an identity that is not running, together with the identity; the close
\* callback removes the identity and keeps the log.
C28_TrackedHasLog ==
    [][ /\ serverPIDs' \subseteq DOMAIN serverLogs'
        /\ \A p \in serverPIDs' \ serverPIDs :
              /\ p \notin DOMAIN serverLogs
              /\ serverLogs'[p] = << >>
        /\ \A p \in DOMAIN serverLogs \ DOMAIN serverLogs' :
              /\ ~isProcessRunning(p)
              /\ p \notin serverPIDs'
              /\ \E t \in Tasks : tasks[t].pc = "final" /\ tasks'[t] # tasks[t]
        /\ \A p \in Pids :
              (procs[p].state = "exited" /\ procs'[p].state = "closed")
              => /\ p \notin serverPIDs'
                 /\ p \in DOMAIN serverLogs => p \in DOMAIN serverLogs' ]_vars

\* an identity is tracked with its log while the log of an identity that
\* the close callback removed is still there
C28_Witness ==
    /\ serverPIDs # {}
    /\ \E p \in DOMAIN serverLogs :
          p \notin serverPIDs /\ procs[p].state = "closed"

\* C29: a start reports started, with the URL and the identity, in the step
\* that obtains the identity; when the process then exits on its own and its
\* close event takes it out of the ActiveSet, the state, the URL and the
\* identity stay as they are: only a handler changes them.
C29_ExitDoesNotChangeState ==
    [][ /\ nextPid' # nextPid
           => /\ SERVER_STATUS' = "started"
              /\ SERVER_PID' = nextPid
              /\ nextPid \in serverPIDs'
        /\ (\E p \in Pids : procs'[p].state # procs[p].state
                              /\ procs'[p].state \in {"exited", "closed"}
                              /\ tasks' = tasks)
           => UNCHANGED << SERVER_STATUS, SERVER_URL, SERVER_PID >>
        /\ << SERVER_STATUS, SERVER_URL, SERVER_PID >>'
             # << SERVER_STATUS, SERVER_URL, SERVER_PID >>
           => tasks' # tasks ]_vars

\* the one server that was started has exited on its own, its close event
\* has fired, and it is still reported as started
C29_Witness ==
    /\ requests = 1
    /\ InFlight = {}
    /\ SERVER_STATUS = "started"
    /\ SERVER_PID = 1
    /\ SERVER_URL # "null"
    /\ procs[1].state = "closed"
    /\ serverPIDs = {}

====
